---- MODULE Spec2Model ----
(***************************************************************************)
(* Model of the terminal progress/output multiplexer of src/src/logger.ts: *)
(* the TTYSpinner handles, the set of running spinners, the buffer of      *)
(* pending lines, the two refresh intervals, the resize listener and the   *)
(* writes made to process.stdout and to the console; the console fallback  *)
(* indicator, patch()/unpatch() of the console methods and exclusive mode. *)
(*                                                                         *)
(* A string is a sequence of tokens.  A token is one UTF-16 code unit,     *)
(* except SGR and RESET, which stand for the two VT escape sequences that  *)
(* colorize() wraps around icons and level labels.                         *)
(***************************************************************************)
EXTENDS Integers, Sequences, FiniteSets, TLC

\* ---------------------------------------------------------------- bounds
MaxHandles == 3      \* size of the pool of handles
MaxLogs == 2         \* number of plain log calls in a run
MaxLen == 4          \* length of the strings whose height is measured
MaxColumns == 3      \* widths at which they are measured
MaxCalls == 3        \* number of calls made through limited wrappers in a run
MaxIterations == 3   \* timeouts of the console indicator that fire in a run
MaxStack == 3        \* outputLog frames the call stack of the host holds

\* ------------------------------------------------------------ characters
SGR == "ESC[36m"
RESET == "ESC[0m"
LF == "\n"
TAB == "\t"
SP == " "
EOL == <<LF>>

\* terminal widths a resize can produce
Widths == {4, 8}

\* texts the owner of a handle passes to spin/update/success/fail
Texts == { <<"a">>, <<"a", TAB, "b", LF, "c", "d", "e", "f", "g">> }

\* the text the k-th spin() call of the registration-order runs passes
TextOf(k) == [i \in 1..k |-> "a"]

\* the argument of the n-th plain log call
Msg(n) == <<ToString(n)>>

\* ------------------------------------------------------- pure functions
max(a, b) == IF a > b THEN a ELSE b

\* Math.ceil(a / w) for a >= 0, w >= 1
ceil(a, w) == (a + w - 1) \div w

stripVTControlCharacters(str) == SelectSeq(str, LAMBDA c : c \notin {SGR, RESET})

\* String.prototype.length: the number of UTF-16 code units
RECURSIVE length(_)
length(str) ==
    IF str = <<>> THEN 0
    ELSE (IF Head(str) = SGR THEN 5 ELSE IF Head(str) = RESET THEN 4 ELSE 1)
         + length(Tail(str))

RECURSIVE split(_)
split(str) ==
    IF \A i \in DOMAIN str : str[i] # LF
    THEN <<str>>
    ELSE LET i == CHOOSE k \in DOMAIN str :
                      str[k] = LF /\ \A j \in 1..(k - 1) : str[j] # LF
         IN  <<SubSeq(str, 1, i - 1)>> \o split(SubSeq(str, i + 1, Len(str)))

RECURSIVE join(_, _)
join(list, sep) ==
    IF list = <<>> THEN <<>>
    ELSE IF Len(list) = 1 THEN list[1]
    ELSE list[1] \o sep \o join(Tail(list), sep)

RECURSIVE replaceAllTabs(_)
replaceAllTabs(str) ==
    IF str = <<>> THEN <<>>
    ELSE (IF Head(str) = TAB THEN <<SP, SP, SP>> ELSE <<Head(str)>>)
         \o replaceAllTabs(Tail(str))

RECURSIVE sumRows(_, _)
sumRows(lines, width) ==
    IF lines = <<>> THEN 0
    ELSE max(1, ceil(Len(Head(lines)), width)) + sumRows(Tail(lines), width)

getContentHeight_raw(str, width) == sumRows(split(str), width)

getContentHeight(str, width) ==
    sumRows(split(stripVTControlCharacters(str)), width)

RECURSIVE sumHeights(_, _)
sumHeights(strs, width) ==
    IF strs = <<>> THEN 0
    ELSE getContentHeight(Head(strs), width) + sumHeights(Tail(strs), width)

\* ------------------------------------------------------------ constants
\* colorize(s, {color}) wraps s in two escape sequences
colorize(s) == <<SGR>> \o s \o <<RESET>>

\* the running icon, split on '||' (two frames stand for the ten braille ones)
DEFAULT_TTY_SPINNER == << colorize(<<"f0">>), colorize(<<"f1">>) >>
DEFAULT_TTY_SUCCESS_ICON == colorize(<<"ok">>)
DEFAULT_TTY_FAIL_ICON == colorize(<<"ko">>)

\* logger.getPrefix(level).join(' ') for the one logger and level of the model
getPrefix == colorize(<<"I">>)

\* process.stdout.isTTY: a TTYSpinner is only built when it is true
isTTY == TRUE

Handles == 1..MaxHandles

\* the handles of the runs that vary texts, widths and plain lines
Concurrent == {1, 2}

\* the keys of LEVEL_METHODS
LEVEL_METHODS ==
    {"emerg", "alert", "crit", "error", "warn", "notice", "info", "verb", "debug", "wth"}

\* keys passed to limit() and once()
Keys == {"k1", "k2"}

\* an entry of #limits that limit() has not made yet
NoLimit == [made |-> FALSE, count |-> 0, proxyCount |-> 0]

\* the icons NodeConsoleSpinner passes to its super constructor
DEFAULT_CONSOLE_RUNNING_ICON == colorize(<<SP, "-", SP>>)
DEFAULT_CONSOLE_FAIL_ICON == colorize(<<SP, "x", SP>>)
DEFAULT_CONSOLE_SUCCESS_ICON == colorize(<<SP, "v", SP>>)

\* a NodeConsoleSpinner that `new` has not built yet; nextTimeout is
\* "undefined", or the timer it holds, which is "pending" or "cleared"
NoConsoleSpinner ==
    [created |-> FALSE, text |-> <<>>, icon |-> <<>>, iteration |-> 0,
     started |-> FALSE, stopped |-> FALSE, nextTimeout |-> "undefined",
     duration |-> TRUE]

\* the methods of console that patch() assigns, and console.trace
ConsoleMethods == {"log", "info", "debug", "warn", "error", "trace"}

\* RootLoggerInstance.__originalMethods, and console as the module finds it
__originalMethods == [k \in ConsoleMethods |-> "original"]

\* LEVEL_PARAMS[level].methods: the methods of activeConsole a level calls
LEVEL_PARAMS ==
    [emerg |-> <<"error", "trace">>, alert |-> <<"error", "trace">>,
     crit |-> <<"error", "trace">>, error |-> <<"error">>, warn |-> <<"warn">>,
     notice |-> <<"info">>, info |-> <<"info">>, verb |-> <<"debug">>,
     debug |-> <<"debug">>, wth |-> <<"debug">>]

\* the root logger and two scoped loggers
Loggers == {"root", "s1", "s2"}

\* registry.exclusive when no logger is exclusive
undefined == "undefined"

\* a TTYSpinner that `new` has not built yet
NoSpinner ==
    [created |-> FALSE, started |-> FALSE, stopped |-> FALSE, text |-> <<>>,
     isArray |-> TRUE, icon |-> <<>>, iconIndex |-> 0]

\* --------------------------------------------------------------- state
VARIABLES
    spinners,                 \* handle -> TTYSpinner fields
    runningSpinners,          \* the Set, in insertion order
    spinnersRefreshInterval,  \* TRUE when set, FALSE when undefined
    ttyRefreshInterval,       \* TRUE when set, FALSE when undefined
    newBuffered,              \* pending lines
    currentBufferHeight,
    columns,                  \* stdOut.columns
    enabled,                  \* root.enabled && logger.enabled
    timers,                   \* intervals alive in the host, per callback
    resizeListeners,          \* how many times handleTerminalResize is installed
    cursorHidden,             \* terminal cursor visibility
    displayed,                \* indicator lines of the last frame, still on screen
    out,                      \* writes made by the last operation
    logCount,                 \* plain log calls made so far
    registered,               \* handles in the order start() registered them
    resized,                  \* TRUE when the last step delivered a 'resize' event
    limits,                   \* #limits: key -> the proxy built for it
    limitedCalls,             \* key -> logging calls made through its proxy so far
    consoleSpinner,           \* the fields of the NodeConsoleSpinner
    timeouts,                 \* setTimeout timers pending in the host
    consoleMethods,           \* console.<method>: the original or a bound level method
    exclusive                 \* registry.exclusive: a logger or undefined

vars == <<spinners, runningSpinners, spinnersRefreshInterval, ttyRefreshInterval,
          newBuffered, currentBufferHeight, columns, enabled, timers,
          resizeListeners, cursorHidden, displayed, out, logCount, registered,
          resized, limits, limitedCalls, consoleSpinner, timeouts,
          consoleMethods, exclusive>>

\* the whole state as one record, so that functions compose as in the code;
\* failAfter is the number of calls on stdOut that succeed before one throws
\* (-1: none throws) and thrown tells that an exception is propagating
St ==
    [spinners |-> spinners, runningSpinners |-> runningSpinners,
     spinnersRefreshInterval |-> spinnersRefreshInterval,
     ttyRefreshInterval |-> ttyRefreshInterval, newBuffered |-> newBuffered,
     currentBufferHeight |-> currentBufferHeight, columns |-> columns,
     enabled |-> enabled, timers |-> timers, resizeListeners |-> resizeListeners,
     cursorHidden |-> cursorHidden, displayed |-> displayed, out |-> out,
     logCount |-> logCount, registered |-> registered, resized |-> resized,
     limits |-> limits, limitedCalls |-> limitedCalls,
     consoleSpinner |-> consoleSpinner, timeouts |-> timeouts,
     consoleMethods |-> consoleMethods, exclusive |-> exclusive,
     failAfter |-> -1, thrown |-> FALSE]

Commit(m) ==
    /\ spinners' = m.spinners
    /\ runningSpinners' = m.runningSpinners
    /\ spinnersRefreshInterval' = m.spinnersRefreshInterval
    /\ ttyRefreshInterval' = m.ttyRefreshInterval
    /\ newBuffered' = m.newBuffered
    /\ currentBufferHeight' = m.currentBufferHeight
    /\ columns' = m.columns
    /\ enabled' = m.enabled
    /\ timers' = m.timers
    /\ resizeListeners' = m.resizeListeners
    /\ cursorHidden' = m.cursorHidden
    /\ displayed' = m.displayed
    /\ out' = m.out
    /\ logCount' = m.logCount
    /\ registered' = m.registered
    /\ resized' = m.resized
    /\ limits' = m.limits
    /\ limitedCalls' = m.limitedCalls
    /\ consoleSpinner' = m.consoleSpinner
    /\ timeouts' = m.timeouts
    /\ consoleMethods' = m.consoleMethods
    /\ exclusive' = m.exclusive

\* the state an operation starts from: nothing written yet
Begin == [St EXCEPT !.out = <<>>, !.resized = FALSE]

\* ------------------------------------------------------- output events
Ev(op, n, data) == [op |-> op, n |-> n, data |-> data]

\* a call of a console method
console(m, ev) == [m EXCEPT !.out = Append(@, ev)]

\* a call on stdOut (write, cursorTo, moveCursor, clearLine): it throws when
\* the stream fails, and no statement after it runs
write(m, ev) ==
    IF m.thrown THEN m
    ELSE IF m.failAfter = 0
         THEN [m EXCEPT !.thrown = TRUE, !.out = Append(@, Ev("throw", 0, <<>>))]
         ELSE [m EXCEPT !.out = Append(@, ev),
                        !.failAfter = IF @ > 0 THEN @ - 1 ELSE @]

\* the statements that follow a call: skipped when the call has thrown
after(m, r) == IF m.thrown THEN m ELSE r

\* ------------------------------------------------------------ TTYSpinner
toString(s, withLevelPrefix) ==
    (IF withLevelPrefix THEN getPrefix \o <<SP>> ELSE <<>>)
    \o (IF s.isArray
        THEN (IF (s.iconIndex + 1) \in DOMAIN s.icon /\ s.icon[s.iconIndex + 1] # <<>>
              THEN s.icon[s.iconIndex + 1] \o <<SP>>
              ELSE <<>>)
        ELSE s.icon[1] \o <<SP>>)
    \o s.text

setText(m, h, text) == [m EXCEPT !.spinners[h].text = text]

setIcon(m, h, isArray, icon) ==
    [m EXCEPT !.spinners[h].isArray = isArray,
              !.spinners[h].icon = icon,
              !.spinners[h].iconIndex = 0]

\* ---------------------------------------------------------- multiplexer
isRefreshing(m) == m.spinnersRefreshInterval

addContentToBuffer_unshift(m, str) ==
    [m EXCEPT !.newBuffered = <<replaceAllTabs(str)>> \o @]

addContentToBuffer(m, str) ==
    [m EXCEPT !.newBuffered = Append(@, replaceAllTabs(str))]

clearTTY(m) ==
    LET w == write(m, Ev("erase", m.currentBufferHeight, <<>>))
    IN  after(w, [w EXCEPT !.currentBufferHeight = 0])

refreshTTY_keepBuffer(m) ==
    IF ~isRefreshing(m) THEN m
    ELSE LET c == clearTTY(m)
             contents == [i \in 1..Len(c.runningSpinners) |->
                             toString(c.spinners[c.runningSpinners[i]], TRUE)]
             d == [c EXCEPT !.currentBufferHeight = @ + sumHeights(contents, c.columns)]
             w == write(d, Ev("frame", 0, join(d.newBuffered \o contents, EOL)))
         IN  after(c, IF w.thrown
                      THEN [w EXCEPT !.displayed = <<>>]
                      ELSE [w EXCEPT !.displayed = contents])

\* the argument of stdOut.write is evaluated, and currentBufferHeight raised,
\* before the call; a frame that was erased and not written leaves no
\* indicator line on screen
refreshTTY(m) ==
    IF ~isRefreshing(m) THEN m
    ELSE LET c == clearTTY(m)
             contents == [i \in 1..Len(c.runningSpinners) |->
                             toString(c.spinners[c.runningSpinners[i]], TRUE)]
             d == [c EXCEPT !.currentBufferHeight = @ + sumHeights(contents, c.columns)]
             w == write(d, Ev("frame", 0, join(d.newBuffered \o contents, EOL)))
         IN  after(c, IF w.thrown
                      THEN [w EXCEPT !.displayed = <<>>]
                      ELSE [w EXCEPT !.displayed = contents,
                                     !.newBuffered = <<>>])

startRefresh(m) ==
    IF ~isRefreshing(m) /\ isTTY
    THEN LET a == write(m, Ev("hide", 0, <<>>))
             b == [a EXCEPT !.cursorHidden = TRUE,
                            !.resizeListeners = @ + 1,
                            !.spinnersRefreshInterval = TRUE,
                            !.ttyRefreshInterval = TRUE,
                            !.timers = [spin |-> @.spin + 1, tty |-> @.tty + 1]]
         IN  after(a, refreshTTY(b))
    ELSE m

handleTerminalResize_stale(m) == refreshTTY(m)

handleTerminalResize(m) ==
    LET contents == [i \in 1..Len(m.runningSpinners) |->
                        toString(m.spinners[m.runningSpinners[i]], TRUE)]
    IN  refreshTTY([m EXCEPT !.currentBufferHeight = sumHeights(contents, m.columns)])

stopRefreshTTY_noFlush(m) ==
    IF isRefreshing(m)
    THEN LET b == write(write(m, Ev("eol", 0, EOL)), Ev("show", 0, <<>>))
         IN  after(b,
             [b EXCEPT !.cursorHidden = FALSE,
                       !.displayed = <<>>,
                       !.resizeListeners = IF @ > 0 THEN @ - 1 ELSE 0,
                       !.timers = [spin |-> IF b.spinnersRefreshInterval
                                            THEN @.spin - 1 ELSE @.spin,
                                   tty |-> IF b.ttyRefreshInterval
                                           THEN @.tty - 1 ELSE @.tty],
                       !.spinnersRefreshInterval = FALSE,
                       !.ttyRefreshInterval = FALSE,
                       !.currentBufferHeight = 0])
    ELSE m

stopRefreshTTY_keepTtyInterval(m) ==
    IF isRefreshing(m)
    THEN LET a == refreshTTY(m)
             b == write(write(a, Ev("eol", 0, EOL)), Ev("show", 0, <<>>))
         IN  after(b,
             [b EXCEPT !.cursorHidden = FALSE,
                       !.displayed = <<>>,
                       !.resizeListeners = IF @ > 0 THEN @ - 1 ELSE 0,
                       !.timers = [spin |-> IF b.spinnersRefreshInterval
                                            THEN @.spin - 1 ELSE @.spin,
                                   tty |-> @.tty],
                       !.spinnersRefreshInterval = FALSE,
                       !.currentBufferHeight = 0])
    ELSE m

stopRefreshTTY_noShow(m) ==
    IF isRefreshing(m)
    THEN LET a == refreshTTY(m)
             b == write(a, Ev("eol", 0, EOL))
         IN  after(b,
             [b EXCEPT !.displayed = <<>>,
                       !.resizeListeners = IF @ > 0 THEN @ - 1 ELSE 0,
                       !.timers = [spin |-> IF b.spinnersRefreshInterval
                                            THEN @.spin - 1 ELSE @.spin,
                                   tty |-> IF b.ttyRefreshInterval
                                           THEN @.tty - 1 ELSE @.tty],
                       !.spinnersRefreshInterval = FALSE,
                       !.ttyRefreshInterval = FALSE,
                       !.currentBufferHeight = 0])
    ELSE m

stopRefreshTTY(m) ==
    IF isRefreshing(m)
    THEN LET a == refreshTTY(m)
             b == write(write(a, Ev("eol", 0, EOL)), Ev("show", 0, <<>>))
         IN  after(b,
             [b EXCEPT !.cursorHidden = FALSE,
                       !.displayed = <<>>,
                       !.resizeListeners = IF @ > 0 THEN @ - 1 ELSE 0,
                       !.timers = [spin |-> IF b.spinnersRefreshInterval
                                            THEN @.spin - 1 ELSE @.spin,
                                   tty |-> IF b.ttyRefreshInterval
                                           THEN @.tty - 1 ELSE @.tty],
                       !.spinnersRefreshInterval = FALSE,
                       !.ttyRefreshInterval = FALSE,
                       !.currentBufferHeight = 0])
    ELSE m

outputLog_alwaysConsole(m, args) ==
    IF ~m.enabled THEN m
    ELSE console(m, Ev("console", 0, join(<<getPrefix>> \o args, <<SP>>)))

\* outputLog for the arguments args (strings), past the level and exclusive filters
outputLog(m, args) ==
    IF ~m.enabled THEN m
    ELSE IF isRefreshing(m)
         THEN addContentToBuffer(m, join(<<getPrefix>> \o args, <<SP>>))
         ELSE console(m, Ev("console", 0, join(<<getPrefix>> \o args, <<SP>>)))

\* ------------------------------------------------------ limit() and once()
\* limit(count, key): this.#limits[key] ??= this.#limitedProxy(count)
limit(m, count, key) ==
    IF m.limits[key].made THEN m
    ELSE [m EXCEPT !.limits[key] = [made |-> TRUE, count |-> count, proxyCount |-> 0]]

\* the get trap of the proxy: counts the reads of level methods
proxyGet(m, key, prop) ==
    IF prop \in LEVEL_METHODS
    THEN [m EXCEPT !.limits[key].proxyCount = @ + 1]
    ELSE m

\* whether the get trap returned the function that does nothing
isNoop(m, key, prop) ==
    prop \in LEVEL_METHODS /\ m.limits[key].proxyCount > m.limits[key].count

\* logger.limit(count, key)[prop](...args): prop is a level method or 'log'
limitedCall(m, count, key, prop, args) ==
    LET g == proxyGet(limit(m, count, key), key, prop)
    IN  IF isNoop(g, key, prop) THEN g ELSE outputLog(g, args)

\* ------------------------------------------------- TTYSpinner operations
setAdd_front(set, h) ==
    IF \E i \in DOMAIN set : set[i] = h THEN set ELSE <<h>> \o set

setAdd(set, h) ==
    IF \E i \in DOMAIN set : set[i] = h THEN set ELSE Append(set, h)

setDelete(set, h) == SelectSeq(set, LAMBDA x : x # h)

start_syncLog(m, h) ==
    IF ~m.enabled THEN m
    ELSE IF m.spinners[h].started THEN m
    ELSE LET a == [m EXCEPT !.spinners[h].started = TRUE,
                            !.runningSpinners = setAdd(@, h),
                            !.registered = Append(@, h)]
             b == IF ~isRefreshing(a) THEN startRefresh(a) ELSE a
             rendered == toString(b.spinners[h], FALSE)
         IN  after(b, IF ~isRefreshing(a)
                      THEN outputLog(b, [i \in DOMAIN rendered |-> <<rendered[i]>>])
                      ELSE b)

start_again(m, h) ==
    IF ~m.enabled THEN m
    ELSE LET a == [m EXCEPT !.spinners[h].started = TRUE,
                            !.runningSpinners = setAdd(@, h),
                            !.registered = Append(@, h)]
             b == IF ~isRefreshing(a) THEN startRefresh(a) ELSE a
             rendered == toString(b.spinners[h], FALSE)
         IN  after(b, IF ~isRefreshing(b)
                      THEN outputLog(b, [i \in DOMAIN rendered |-> <<rendered[i]>>])
                      ELSE b)

start(m, h) ==
    IF ~m.enabled THEN m
    ELSE IF m.spinners[h].started THEN m
    ELSE LET a == [m EXCEPT !.spinners[h].started = TRUE,
                            !.runningSpinners = setAdd(@, h),
                            !.registered = Append(@, h)]
             b == IF ~isRefreshing(a) THEN startRefresh(a) ELSE a
             rendered == toString(b.spinners[h], FALSE)
         IN  after(b, IF ~isRefreshing(b)
                      THEN outputLog(b, [i \in DOMAIN rendered |-> <<rendered[i]>>])
                      ELSE b)

stop_keepRegistered(m, h) ==
    IF ~m.spinners[h].stopped /\ m.spinners[h].started
    THEN LET a == [m EXCEPT !.spinners[h].stopped = TRUE]
             b == addContentToBuffer(a, toString(a.spinners[h], TRUE))
         IN  IF ~isRefreshing(b)
             THEN outputLog(b, <<toString(b.spinners[h], FALSE)>>)
             ELSE IF Len(b.runningSpinners) = 0
                  THEN stopRefreshTTY(b)
                  ELSE b
    ELSE m

stop_pushAfter(m, h) ==
    IF ~m.spinners[h].stopped /\ m.spinners[h].started
    THEN LET a == [m EXCEPT !.spinners[h].stopped = TRUE,
                            !.runningSpinners = setDelete(@, h)]
             b == IF isRefreshing(a) /\ Len(a.runningSpinners) = 0
                  THEN stopRefreshTTY(a)
                  ELSE a
         IN  IF ~isRefreshing(a)
             THEN outputLog(a, <<toString(a.spinners[h], FALSE)>>)
             ELSE addContentToBuffer(b, toString(b.spinners[h], TRUE))
    ELSE m

stop(m, h) ==
    IF ~m.spinners[h].stopped /\ m.spinners[h].started
    THEN LET a == [m EXCEPT !.spinners[h].stopped = TRUE,
                            !.runningSpinners = setDelete(@, h)]
             b == addContentToBuffer(a, toString(a.spinners[h], TRUE))
         IN  IF ~isRefreshing(b)
             THEN outputLog(b, <<toString(b.spinners[h], FALSE)>>)
             ELSE IF Len(b.runningSpinners) = 0
                  THEN stopRefreshTTY(b)
                  ELSE b
    ELSE m

update(m, h, text) == setText(m, h, text)

success(m, h, hasText, text) ==
    LET a == IF hasText THEN setText(m, h, text) ELSE m
    IN  stop(setIcon(a, h, FALSE, <<DEFAULT_TTY_SUCCESS_ICON>>), h)

fail(m, h, hasText, text) ==
    LET a == IF hasText THEN setText(m, h, text) ELSE m
    IN  stop(setIcon(a, h, FALSE, <<DEFAULT_TTY_FAIL_ICON>>), h)

\* _icon.length: the number of frames of an array, of code units of a string
iconLength(s) == IF s.isArray THEN Len(s.icon) ELSE length(s.icon[1])

spin(m, h) ==
    LET s == m.spinners[h]
    IN  IF s.started /\ ~s.stopped /\ iconLength(s) > 1
        THEN [m EXCEPT !.spinners[h].iconIndex =
                           IF s.iconIndex + 1 >= iconLength(s) THEN 0 ELSE s.iconIndex + 1]
        ELSE m

\* new TTYSpinner(logger, level, {text, runningIcon}); runningIcon is the
\* option already split on '||', DEFAULT_TTY_SPINNER when it is not given
construct(m, h, text, runningIcon) ==
    LET a == [m EXCEPT !.spinners[h].created = TRUE]
        b == setIcon(setText(a, h, text), h, TRUE, runningIcon)
    IN  start(b, h)

\* logger.<level>.spin(message, options): builds the TTYSpinner, then starts it
spinMethod(m, h, text, runningIcon) ==
    LET c == construct(m, h, text, runningIcon)
    IN  after(c, start(c, h))

RECURSIVE spinAll(_, _)
spinAll(m, hs) ==
    IF hs = <<>> THEN m ELSE spinAll(spin(m, Head(hs)), Tail(hs))

\* the callback of spinnersRefreshInterval
spinnersRefreshCallback(m) == refreshTTY(spinAll(m, m.runningSpinners))

\* the callback of ttyRefreshInterval
ttyRefreshCallback(m) == refreshTTY(m)

\* stdOut emits 'resize' to every installed listener
RECURSIVE emitResize(_, _)
emitResize(m, n) ==
    IF n = 0 \/ m.thrown THEN m ELSE emitResize(handleTerminalResize(m), n - 1)

\* ------------------------------------------------- NodeConsoleSpinner
\* outputLog with override.prefix (strings) in place of the level prefix
outputLogOverride(m, prefix, args) ==
    IF ~m.enabled THEN m
    ELSE IF isRefreshing(m)
         THEN addContentToBuffer(m, join(prefix \o args, <<SP>>))
         ELSE console(m, Ev("console", 0, join(prefix \o args, <<SP>>)))

\* `[${getDurationPrefix(started, stopped)}]`: the elapsed time, one token
DurationPrefix == <<"[d]">>

\* ''.padStart(n, '.')
padStart(n) == [i \in 1..n |-> "."]

display(m) ==
    LET s == m.consoleSpinner
        texts == IF s.duration /\ s.started
                 THEN <<DurationPrefix, s.text>>
                 ELSE IF ~s.stopped
                      THEN <<s.text, padStart(s.iteration)>>
                      ELSE <<s.text>>
    IN  outputLogOverride(m, <<getPrefix, s.icon>>, texts)

\* tick(): display, then arm the timeout of a running spinner that has none
tick(m) ==
    LET d == display(m)
        s == d.consoleSpinner
    IN  IF s.started /\ ~s.stopped /\ s.nextTimeout = "undefined"
        THEN [d EXCEPT !.consoleSpinner.nextTimeout = "pending",
                       !.timeouts = @ + 1]
        ELSE d

\* new NodeConsoleSpinner(logger, level, {duration, text})
consoleConstruct(m, text, duration) ==
    [m EXCEPT !.consoleSpinner =
        [NoConsoleSpinner EXCEPT !.created = TRUE,
                                 !.icon = DEFAULT_CONSOLE_RUNNING_ICON,
                                 !.text = text,
                                 !.duration = duration]]

consoleStart(m) ==
    IF ~m.consoleSpinner.started
    THEN tick([m EXCEPT !.consoleSpinner.started = TRUE,
                        !.consoleSpinner.iteration = 1])
    ELSE m

\* logger.<level>.spin(message, {console: true, duration})
consoleSpinMethod(m, text, duration) ==
    consoleStart(consoleConstruct(m, text, duration))

consoleUpdate(m, text) == [m EXCEPT !.consoleSpinner.text = text]

\* clearTimeout(this.nextTimeout): the field keeps the cancelled timer
clearNextTimeout(m) ==
    IF m.consoleSpinner.nextTimeout = "pending"
    THEN [m EXCEPT !.consoleSpinner.nextTimeout = "cleared",
                   !.timeouts = @ - 1]
    ELSE m

consoleStop(m) ==
    tick([clearNextTimeout(m) EXCEPT !.consoleSpinner.stopped = TRUE])

consoleSuccess(m, hasText, text) ==
    LET a == IF hasText THEN consoleUpdate(m, text) ELSE m
    IN  consoleStop([a EXCEPT !.consoleSpinner.icon = DEFAULT_CONSOLE_SUCCESS_ICON])

consoleFail(m, hasText, text) ==
    LET a == IF hasText THEN consoleUpdate(m, text) ELSE m
    IN  consoleStop([a EXCEPT !.consoleSpinner.icon = DEFAULT_CONSOLE_FAIL_ICON])

\* the callback tick() passes to setTimeout; the timer has fired
nextTimeoutCallback(m) ==
    tick([m EXCEPT !.timeouts = @ - 1,
                   !.consoleSpinner.iteration = @ + 1,
                   !.consoleSpinner.nextTimeout = "undefined"])

\* ------------------------------------------------- patch() and unpatch()
patch(m) ==
    [m EXCEPT !.consoleMethods =
        [@ EXCEPT !["log"] = "info", !["info"] = "info", !["debug"] = "debug",
                  !["warn"] = "warn", !["error"] = "crit"]]

unpatch(m) ==
    [m EXCEPT !.consoleMethods =
        [k \in ConsoleMethods |->
            IF k \in {"log", "info", "debug", "error", "warn"}
            THEN __originalMethods[k]
            ELSE @[k]]]

\* a call that finds the call stack full
RangeError(m) ==
    [m EXCEPT !.thrown = TRUE, !.out = Append(@, Ev("throw", 0, <<"RangeError">>))]

RECURSIVE callConsole(_, _, _, _), callMethods(_, _, _, _), outputLogLevel(_, _, _, _)

\* console[method](...args) with d frames of outputLog on the call stack:
\* activeConsole is the same object as console, so that it calls what
\* patch() has assigned
callConsole(m, method, args, d) ==
    IF m.consoleMethods[method] = "original"
    THEN console(m, Ev("console", 0, join(args, <<SP>>)))
    ELSE outputLogLevel(m, m.consoleMethods[method], args, d)

\* levelParams.methods.map(method => method.apply(globalThis, args))
callMethods(m, methods, args, d) ==
    IF methods = <<>> \/ m.thrown THEN m
    ELSE callMethods(callConsole(m, Head(methods), args, d), Tail(methods), args, d)

\* outputLog(level, args, root) with its try and catch, where the methods of
\* the level are those console holds when they are called
outputLogLevel(m, level, args, d) ==
    IF d >= MaxStack THEN RangeError(m)
    ELSE LET tried ==
                 IF ~m.enabled THEN m
                 ELSE IF isRefreshing(m)
                      THEN addContentToBuffer(m, join(<<getPrefix>> \o args, <<SP>>))
                      ELSE callMethods(m, LEVEL_PARAMS[level], <<getPrefix>> \o args, d + 1)
         IN  IF tried.thrown
             THEN callConsole([tried EXCEPT !.thrown = FALSE], "error",
                              << <<"RangeError">> >>, d + 1)
             ELSE tried

\* ------------------------------------------------------------ exclusive
\* get exclusive()
exclusiveGet(m, logger) == m.exclusive = logger

\* set exclusive(b)
exclusiveSet(m, logger, b) ==
    [m EXCEPT !.exclusive = IF exclusiveGet(m, logger) THEN undefined ELSE logger]

\* outputLog(level, args, logger): the enabled and exclusive filters, then
\* the output as for the one logger of outputLog above
outputLogBy(m, logger, args) ==
    IF ~m.enabled THEN m
    ELSE IF m.exclusive # undefined /\ m.exclusive # logger THEN m
    ELSE outputLog(m, args)

\* --------------------------------------------------------------- actions
Init ==
    /\ spinners = [h \in Handles |-> NoSpinner]
    /\ runningSpinners = <<>>
    /\ spinnersRefreshInterval = FALSE
    /\ ttyRefreshInterval = FALSE
    /\ newBuffered = <<>>
    /\ currentBufferHeight = 0
    /\ columns \in Widths
    /\ enabled = TRUE
    /\ timers = [spin |-> 0, tty |-> 0]
    /\ resizeListeners = 0
    /\ cursorHidden = FALSE
    /\ displayed = <<>>
    /\ out = <<>>
    /\ logCount = 0
    /\ registered = <<>>
    /\ resized = FALSE
    /\ limits = [k \in Keys |-> NoLimit]
    /\ limitedCalls = [k \in Keys |-> 0]
    /\ consoleSpinner = NoConsoleSpinner
    /\ timeouts = 0
    /\ consoleMethods = __originalMethods
    /\ exclusive = undefined

NumCreated == Cardinality({h \in Handles : spinners[h].created})

Spin ==
    /\ (NumCreated + 1) \in Concurrent
    /\ \E text \in Texts : Commit(spinMethod(Begin, NumCreated + 1, text, DEFAULT_TTY_SPINNER))

Start ==
    \E h \in Handles :
        /\ spinners[h].created
        /\ Commit(start(Begin, h))

Update ==
    \E h \in Handles, text \in Texts :
        /\ spinners[h].created
        /\ Commit(update(Begin, h, text))

Success ==
    \E h \in Handles, hasText \in BOOLEAN, text \in Texts :
        /\ spinners[h].created
        /\ hasText \/ text = <<"a">>
        /\ Commit(success(Begin, h, hasText, text))

Fail ==
    \E h \in Handles :
        /\ spinners[h].created
        /\ Commit(fail(Begin, h, FALSE, <<>>))

Stop ==
    \E h \in Handles :
        /\ spinners[h].created
        /\ Commit(stop(Begin, h))

Log ==
    /\ logCount < MaxLogs
    /\ Commit(outputLog([Begin EXCEPT !.logCount = @ + 1], <<Msg(logCount + 1)>>))

AnimationTick ==
    /\ timers.spin > 0
    /\ Commit(spinnersRefreshCallback(Begin))

RedrawTick ==
    /\ timers.tty > 0
    /\ Commit(ttyRefreshCallback(Begin))

Resize ==
    \E w \in Widths :
        Commit(emitResize([Begin EXCEPT !.columns = w, !.resized = TRUE], resizeListeners))

SetEnabled ==
    \E b \in BOOLEAN :
        /\ b # enabled
        /\ Commit([Begin EXCEPT !.enabled = b])

Next ==
    \/ Spin
    \/ Start
    \/ Update
    \/ Success
    \/ Stop
    \/ Log
    \/ AnimationTick
    \/ RedrawTick
    \/ Resize

Spec == Init /\ [][Next]_vars

\* Runs about registration order: every handle of the pool, one text per
\* handle, the logger switched off and on between the calls, handles ended
\* by fail().
SpinNext ==
    /\ (NumCreated + 1) \in Handles
    /\ Commit(spinMethod(Begin, NumCreated + 1, TextOf(NumCreated + 1), DEFAULT_TTY_SPINNER))

NextOrder ==
    \/ SpinNext
    \/ Start
    \/ Fail
    \/ RedrawTick
    \/ SetEnabled

\* no resize in these runs: the terminal keeps one width
InitOrder == Init /\ columns = 8

SpecOrder == InitOrder /\ [][NextOrder]_vars

\* Runs about the animation: handles with one, two or three running frames,
\* created while the logger is on or off, ended by fail(), started by hand.
RunningIcons == { DEFAULT_TTY_SPINNER, << <<"x">> >>, << <<"p">>, <<"q">>, <<"r">> >> }

SpinIcon ==
    /\ (NumCreated + 1) \in Concurrent
    /\ \E icon \in RunningIcons :
          Commit(spinMethod(Begin, NumCreated + 1, <<"a">>, icon))

NextAnim ==
    \/ SpinIcon
    \/ Start
    \/ Fail
    \/ AnimationTick
    \/ SetEnabled

SpecAnim == Init /\ [][NextAnim]_vars

\* Runs on a terminal whose stream can fail: the call made on stdOut after
\* k successful ones throws (k = -1: none does).
FailAfter == {-1, 0, 1, 2, 3}

Failing(k) == [Begin EXCEPT !.failAfter = k]

SpinFailing ==
    /\ (NumCreated + 1) \in Concurrent
    /\ \E k \in FailAfter :
          Commit(spinMethod(Failing(k), NumCreated + 1, <<"a">>, DEFAULT_TTY_SPINNER))

StopFailing ==
    \E h \in Handles, k \in FailAfter :
        /\ spinners[h].created
        /\ Commit(stop(Failing(k), h))

RedrawTickFailing ==
    /\ timers.tty > 0
    /\ \E k \in FailAfter : Commit(ttyRefreshCallback(Failing(k)))

ResizeFailing ==
    \E w \in Widths, k \in FailAfter :
        Commit(emitResize([Failing(k) EXCEPT !.columns = w, !.resized = TRUE],
                          resizeListeners))

NextFail ==
    \/ SpinFailing
    \/ StopFailing
    \/ Update
    \/ Log
    \/ RedrawTickFailing
    \/ ResizeFailing

SpecFail == Init /\ [][NextFail]_vars

\* Runs about getContentHeight: every string of at most MaxLen tokens among a
\* printable character, the two escape sequences and the line break, measured
\* at every width up to MaxColumns, one string per run; the call and its
\* result are kept in out.
Alphabet == {"a", SGR, RESET, LF}

Strings == UNION {[1..n -> Alphabet] : n \in 0..MaxLen}

Measure ==
    /\ out = <<>>
    /\ \E str \in Strings, w \in 1..MaxColumns :
          LET m == [Begin EXCEPT !.columns = w]
          IN  Commit(console(m, Ev("height", getContentHeight(str, m.columns), str)))

NextHeight == Measure

SpecHeight == Init /\ [][NextHeight]_vars

\* Runs about limit(): calls through the wrappers of two keys, with counts 1
\* (once) and 2, by two level methods and by log().
Counts == {1, 2}

Props == {"info", "warn", "log"}

LimitedCall ==
    /\ logCount < MaxCalls
    /\ \E key \in Keys, count \in Counts, prop \in Props :
          Commit(limitedCall([Begin EXCEPT !.logCount = @ + 1,
                                           !.limitedCalls[key] = @ + 1],
                             count, key, prop, <<Msg(logCount + 1)>>))

NextLimit == LimitedCall

SpecLimit == Init /\ [][NextLimit]_vars

\* Runs of the console fallback: one indicator built by spin() with the
\* console option, updated, ended any number of times, its timeout firing.
ConsoleSpin ==
    /\ ~consoleSpinner.created
    /\ \E text \in Texts, duration \in BOOLEAN :
           Commit(consoleSpinMethod(Begin, text, duration))

ConsoleUpdate ==
    /\ consoleSpinner.created
    /\ \E text \in Texts : Commit(consoleUpdate(Begin, text))

ConsoleSuccess ==
    /\ consoleSpinner.created
    /\ \E hasText \in BOOLEAN, text \in Texts :
           /\ hasText \/ text = <<"a">>
           /\ Commit(consoleSuccess(Begin, hasText, text))

ConsoleFail ==
    /\ consoleSpinner.created
    /\ Commit(consoleFail(Begin, FALSE, <<>>))

ConsoleStop ==
    /\ consoleSpinner.created
    /\ Commit(consoleStop(Begin))

ConsoleTimeout ==
    /\ timeouts > 0
    /\ consoleSpinner.nextTimeout = "pending"
    /\ consoleSpinner.iteration < MaxIterations
    /\ Commit(nextTimeoutCallback(Begin))

NextConsole ==
    \/ ConsoleSpin
    \/ ConsoleUpdate
    \/ ConsoleSuccess
    \/ ConsoleFail
    \/ ConsoleStop
    \/ ConsoleTimeout

SpecConsole == Init /\ [][NextConsole]_vars


\* Runs about the patched console: patch() and unpatch() at any time, calls
\* of the console methods, while handles come and go on the terminal.
Patch ==
    \E patched \in {patch(Begin)} : Commit(patched)

Unpatch ==
    \E restored \in {unpatch(Begin)} : Commit(restored)

ConsoleCall ==
    /\ logCount < MaxLogs
    /\ \E method \in {"log", "info", "debug", "warn", "error"} :
           Commit(callConsole([Begin EXCEPT !.logCount = @ + 1], method,
                              <<Msg(logCount + 1)>>, 0))

NextPatch ==
    \/ Patch
    \/ Unpatch
    \/ ConsoleCall
    \/ SpinNext
    \/ Stop
    \/ RedrawTick

SpecPatch == Init /\ [][NextPatch]_vars


\* Runs about exclusive mode: assignments of exclusive on any logger, plain
\* log calls by any logger, while handles come and go on the terminal.
SetExclusive ==
    \E logger \in Loggers, b \in BOOLEAN :
        \E assigned \in {exclusiveSet(Begin, logger, b)} : Commit(assigned)

LogBy ==
    \E logger \in Loggers :
        /\ logCount < MaxLogs
        /\ Commit(outputLogBy([Begin EXCEPT !.logCount = @ + 1], logger,
                              <<Msg(logCount + 1)>>))

NextExclusive ==
    \/ SetExclusive
    \/ LogBy
    \/ SpinNext
    \/ Stop
    \/ RedrawTick

SpecExclusive == Init /\ [][NextExclusive]_vars


\* ------------------------------------------------------------ properties
Active == spinnersRefreshInterval

Live(h) == spinners[h].started /\ ~spinners[h].stopped

\* the renderings of the running spinners, as the next frame would show them
Contents ==
    [i \in 1..Len(runningSpinners) |->
        toString(spinners[runningSpinners[i]], TRUE)]

HasOp(o, op) == \E i \in DOMAIN o : o[i].op = op

CountOp(o, op) == Cardinality({i \in DOMAIN o : o[i].op = op})

FrameData(o) == o[CHOOSE i \in DOMAIN o : o[i].op = "frame"].data

IsPrefix(p, s) == Len(p) <= Len(s) /\ SubSeq(s, 1, Len(p)) = p

IsSuffix(p, s) == Len(p) <= Len(s) /\ SubSeq(s, Len(s) - Len(p) + 1, Len(s)) = p

\* the renderings of the live handles among hs, in the order of hs
RECURSIVE RendersOf(_, _)
RendersOf(sp, hs) ==
    IF hs = <<>> THEN <<>>
    ELSE (IF sp[Head(hs)].started /\ ~sp[Head(hs)].stopped
          THEN <<toString(sp[Head(hs)], TRUE)>>
          ELSE <<>>)
         \o RendersOf(sp, Tail(hs))

\* the renderings of the live handles, in registration order
LiveRenders == RendersOf(spinners, registered)

\* the n-th plain line occurs in the string s, and where
Occurs(tok, s) == \E i \in DOMAIN s : s[i] = tok

MsgIn(n, s) == Occurs(ToString(n), s)

Pos(tok, s) == CHOOSE i \in DOMAIN s : s[i] = tok

\* the glyphs of the running animation
RunningGlyphs == {DEFAULT_TTY_SPINNER[k][2] : k \in DOMAIN DEFAULT_TTY_SPINNER}

NoRunningFrame(line) == \A i \in DOMAIN line : line[i] \notin RunningGlyphs

\* the final rendering with a terminal icon, as it is kept in the buffer
FinalLine(icon, text) == replaceAllTabs(getPrefix \o <<SP>> \o icon \o <<SP>> \o text)

\* the call that led to r pushed line onto the pending lines, once; when the
\* call tore the multiplexer down, the line left with the flush frame
Appended(r, line) ==
    IF isRefreshing(r)
    THEN r.newBuffered = Append(newBuffered, line) /\ r.out = <<>>
    ELSE /\ CountOp(r.out, "frame") = 1
         /\ FrameData(r.out) = join(Append(newBuffered, line), EOL)
         /\ r.newBuffered = <<>>

\* C1: every erase of a redraw clears as many rows as the indicator lines of
\* the previous frame occupy at the width current at the time of the erase.
RowCountInvariant ==
    [][\A i \in DOMAIN out' :
          out'[i].op = "erase" => out'[i].n = sumHeights(displayed, columns')]_vars

\* C2: the step in which the last live handle stops while the multiplexer is
\* active writes exactly one frame, made of every pending line followed by
\* that handle's final rendering, writes the cursor-show sequence once,
\* cancels both timers, leaves currentBufferHeight at 0 and the multiplexer
\* idle; and while idle no step other than a handle's start writes to stdout.
Teardown ==
    [][/\ \A h \in Handles :
            (Active /\ Live(h) /\ ~Live(h)' /\ \A g \in Handles : ~Live(g)') =>
                /\ CountOp(out', "frame") = 1
                /\ FrameData(out') =
                       join(Append(newBuffered,
                                   replaceAllTabs(toString(spinners'[h], TRUE))), EOL)
                /\ CountOp(out', "show") = 1
                /\ out'[Len(out')].op = "show"
                /\ ~spinnersRefreshInterval'
                /\ ~ttyRefreshInterval'
                /\ timers' = [spin |-> 0, tty |-> 0]
                /\ currentBufferHeight' = 0
                /\ newBuffered' = <<>>
       /\ (~Active /\ registered' = registered) =>
              \A i \in DOMAIN out' : out'[i].op = "console"]_vars

\* C2 witness: a teardown has just flushed a plain line and the final rendering.
TeardownReached ==
    /\ ~Active
    /\ HasOp(out, "show")
    /\ CountOp(out, "frame") = 1
    /\ MsgIn(1, FrameData(out))
    /\ \E h \in Handles : spinners[h].stopped

\* C3: in every state, the first success/fail/stop call on a live handle
\* appends its final rendering once, with that call's icon and text and no
\* running-animation frame, and any such call on a stopped handle appends
\* nothing, writes nothing and leaves the live set, the timers and
\* currentBufferHeight as they are.
IdempotentTerminal ==
    \A h \in Handles :
        /\ Live(h) =>
              /\ \A hasText \in BOOLEAN, t \in Texts :
                    LET text == IF hasText THEN t ELSE spinners[h].text
                    IN  /\ Appended(success(Begin, h, hasText, t),
                                    FinalLine(DEFAULT_TTY_SUCCESS_ICON, text))
                        /\ Appended(fail(Begin, h, hasText, t),
                                    FinalLine(DEFAULT_TTY_FAIL_ICON, text))
              /\ LET r == stop(Begin, h)
                     line == replaceAllTabs(toString(r.spinners[h], TRUE))
                 IN  Appended(r, line) /\ NoRunningFrame(line)
        /\ spinners[h].stopped =>
              \A r \in {stop(Begin, h)}
                       \cup {success(Begin, h, b, t) : b \in BOOLEAN, t \in Texts}
                       \cup {fail(Begin, h, b, t) : b \in BOOLEAN, t \in Texts} :
                  /\ r.newBuffered = newBuffered
                  /\ r.out = <<>>
                  /\ r.runningSpinners = runningSpinners
                  /\ r.spinnersRefreshInterval = spinnersRefreshInterval
                  /\ r.ttyRefreshInterval = ttyRefreshInterval
                  /\ r.timers = timers
                  /\ r.currentBufferHeight = currentBufferHeight

\* C4: in every state, update, success and fail on a stopped handle leave the
\* handle's text, icon, frame index and stop mark as they are.
LateCallsNoOp ==
    \A h \in Handles :
        spinners[h].stopped =>
            \A b \in BOOLEAN, t \in Texts :
                /\ update(Begin, h, t).spinners[h] = spinners[h]
                /\ success(Begin, h, b, t).spinners[h] = spinners[h]
                /\ fail(Begin, h, b, t).spinners[h] = spinners[h]

\* C5: every frame carries every pending plain line, the plain lines in the
\* order of their log calls, and all of them before the renderings of the
\* live handles, which end the frame.
PlainLineOrdering ==
    [][HasOp(out', "frame") =>
          \A d \in {FrameData(out')}, tail \in {join(LiveRenders', EOL)} :
              /\ IsSuffix(tail, d)
              /\ \A n \in 1..MaxLogs :
                    \A tok \in {ToString(n)} :
                        /\ (\E k \in DOMAIN newBuffered : Occurs(tok, newBuffered[k]))
                               => Occurs(tok, d)
                        /\ Occurs(tok, d) =>
                               /\ Pos(tok, d) <= Len(d) - Len(tail)
                               /\ \A j \in 1..(n - 1) :
                                      \A before \in {ToString(j)} :
                                          Occurs(before, d) => Pos(before, d) < Pos(tok, d)]_vars

\* C5 witness: a frame with two plain lines and a live handle has been written.
PlainLinesFramed ==
    /\ HasOp(out, "frame")
    /\ MsgIn(1, FrameData(out))
    /\ MsgIn(2, FrameData(out))
    /\ Len(runningSpinners) >= 1

\* C6: every frame ends with the renderings of the live handles in the order
\* in which start() registered them, and these are the indicator lines shown.
RegistrationOrder ==
    [][HasOp(out', "frame") =>
          /\ displayed' = LiveRenders'
          /\ IsSuffix(join(LiveRenders', EOL), FrameData(out'))]_vars

\* C6 witness: three handles registered in an order other than that of their
\* creation, the second of them stopped, the other two drawn in a frame.
OrderKeptAfterFinish ==
    /\ HasOp(out, "frame")
    /\ Len(registered) = 3
    /\ registered[1] > registered[3]
    /\ spinners[registered[2]].stopped
    /\ Live(registered[1])
    /\ Live(registered[3])
    /\ Len(displayed) = 2

\* C7: a plain log call that passes the filters pushes its line onto the
\* pending lines and writes nothing while the multiplexer is active, and
\* writes the line to the console and leaves the pending lines alone while
\* it is idle; no step taken while active writes to the console.
Routing ==
    [][/\ (logCount' = logCount + 1 /\ enabled) =>
             LET line == getPrefix \o <<SP>> \o Msg(logCount + 1)
             IN  IF Active
                 THEN newBuffered' = Append(newBuffered, replaceAllTabs(line)) /\ out' = <<>>
                 ELSE out' = <<Ev("console", 0, line)>> /\ newBuffered' = newBuffered
       /\ Active => ~HasOp(out', "console")]_vars

\* C7 witness: a plain line logged while active waits in the buffer.
LineBuffered ==
    /\ Active
    /\ out = <<>>
    /\ logCount >= 1
    /\ newBuffered # <<>>
    /\ MsgIn(logCount, newBuffered[Len(newBuffered)])

\* C8: a step that writes a frame writes one frame, which starts with all
\* the lines that were pending, and leaves no line pending; a step that
\* writes no frame keeps every pending line, in place.
DrainOnRedraw ==
    [][/\ HasOp(out', "frame") =>
             /\ CountOp(out', "frame") = 1
             /\ IsPrefix(join(newBuffered, EOL), FrameData(out'))
             /\ newBuffered' = <<>>
       /\ ~HasOp(out', "frame") => IsPrefix(newBuffered, newBuffered')]_vars

\* C8 witness: a redraw has written a pending plain line while a handle runs.
LineDrained ==
    /\ Active
    /\ HasOp(out, "frame")
    /\ ~HasOp(out, "hide")
    /\ MsgIn(1, FrameData(out))
    /\ newBuffered = <<>>

\* C9: the two intervals are both set or both undefined, they are set exactly
\* when some handle is started and not stopped, and the host holds one timer
\* per set interval and none otherwise.
TimerLifecycle ==
    /\ spinnersRefreshInterval = ttyRefreshInterval
    /\ spinnersRefreshInterval <=> (\E h \in Handles : Live(h))
    /\ timers.spin = (IF spinnersRefreshInterval THEN 1 ELSE 0)
    /\ timers.tty = (IF ttyRefreshInterval THEN 1 ELSE 0)

\* C9 witness: the timers run again for a handle started after a teardown,
\* while another handle is still pending.
TimersRestarted ==
    /\ HasOp(out, "hide")
    /\ timers = [spin |-> 1, tty |-> 1]
    /\ \E h \in Handles : spinners[h].stopped
    /\ \E h \in Handles : spinners[h].created /\ ~spinners[h].started

\* C10: after every step the cursor is hidden exactly when the multiplexer is
\* active and the resize listener is installed once when active and not at
\* all when idle; the step that activates it writes the cursor-hide sequence
\* once, starts both timers and draws one frame that ends with the newly
\* registered handle; cursor-hide is written by activating steps only, and
\* cursor-show once by every deactivating step and by no other step.
CursorPairing ==
    [][/\ cursorHidden' <=> Active'
       /\ resizeListeners' = (IF Active' THEN 1 ELSE 0)
       /\ (~Active /\ Active') =>
              /\ \E h \in Handles :
                    /\ registered' = Append(registered, h)
                    /\ CountOp(out', "frame") = 1
                    /\ IsSuffix(toString(spinners'[h], TRUE), FrameData(out'))
              /\ out'[1].op = "hide"
              /\ timers' = [spin |-> 1, tty |-> 1]
       /\ HasOp(out', "hide") => (~Active /\ Active' /\ CountOp(out', "hide") = 1)
       /\ HasOp(out', "show") => (Active /\ ~Active' /\ CountOp(out', "show") = 1)
       /\ (Active /\ ~Active') => HasOp(out', "show")]_vars

\* C10 witness: the first handle has just activated the multiplexer.
Activated ==
    /\ HasOp(out, "hide")
    /\ cursorHidden
    /\ resizeListeners = 1
    /\ Len(registered) = 1

\* C11: a resize event delivered while the multiplexer is active and the
\* indicator lines on screen are the current renderings of the running
\* spinners erases the rows those lines take at the new width, redraws the
\* same lines at once and leaves currentBufferHeight at that row count.
ResizeRecomputes ==
    [][(resized' /\ Active /\ displayed = Contents) =>
          /\ Len(out') = 2
          /\ out'[1] = Ev("erase", sumHeights(displayed, columns'), <<>>)
          /\ out'[2].op = "frame"
          /\ IsSuffix(join(displayed, EOL), out'[2].data)
          /\ displayed' = displayed
          /\ currentBufferHeight' = sumHeights(displayed, columns')]_vars

\* C11 witness: a resize has just erased and redrawn indicator lines whose
\* row count at the new width differs from their row count at the other one.
ResizeRedrawn ==
    /\ resized
    /\ Active
    /\ Len(out) = 2
    /\ out[1].op = "erase"
    /\ displayed # <<>>
    /\ out[1].n = sumHeights(displayed, columns)
    /\ \E w \in Widths : sumHeights(displayed, w) # out[1].n

\* the number of frames of a handle's icon: a fixed glyph is one frame
frames(s) == IF s.isArray THEN Len(s.icon) ELSE 1

\* C12: an animation tick advances the frame index of every running handle
\* whose icon has n > 1 frames by one modulo n and leaves the index of every
\* other handle alone, and the index stays within 0..n-1.
AnimationCyclic ==
    [][AnimationTick =>
          \A h \in Handles :
              LET s == spinners[h]
                  n == frames(s)
              IN  /\ (Live(h) /\ n > 1) =>
                        spinners'[h].iconIndex = (s.iconIndex + 1) % n
                  /\ ~(Live(h) /\ n > 1) =>
                        spinners'[h].iconIndex = s.iconIndex
                  /\ s.created => spinners'[h].iconIndex \in 0..(n - 1)]_vars

\* C13: in every state, start() on a handle that is already started, running
\* or stopped, changes nothing and writes nothing; every handle is registered
\* at most once, and a stopped handle is not among the running spinners.
StartOnce ==
    /\ \A h \in Handles : spinners[h].started => start(Begin, h) = Begin
    /\ \A i, j \in DOMAIN registered : registered[i] = registered[j] => i = j
    /\ \A i \in DOMAIN runningSpinners : ~spinners[runningSpinners[i]].stopped

\* C13 witness: spin(), whose constructor starts the handle and which then
\* calls start() again, has just activated the multiplexer for a second
\* handle while the first one, stopped, stays out of the running spinners.
StartedTwice ==
    /\ Len(registered) = 2
    /\ spinners[registered[1]].stopped
    /\ runningSpinners = <<registered[2]>>
    /\ HasOp(out, "hide")
    /\ CountOp(out, "frame") = 1
    /\ timers = [spin |-> 1, tty |-> 1]

\* C14 as claimed: the step in which start() first takes effect on a handle
\* writes exactly one rendering to the console when the multiplexer was idle
\* and writes nothing when it was active.
SyncFirstRender ==
    [][\A h \in Handles :
          (~spinners[h].started /\ spinners'[h].started) =>
              IF ~Active
              THEN CountOp(out', "console") = 1
              ELSE out' = <<>>]_vars

\* C14 as amended: the step in which start() first takes effect on a handle
\* writes nothing to the console and pushes no pending line; when the
\* multiplexer was idle the step activates it and its immediate redraw
\* writes one frame that ends with the handle's rendering; when it was
\* active the step writes nothing and puts the handle last among the running
\* spinners, to be drawn by the next frame.
FirstRender ==
    [][\A h \in Handles :
          (~spinners[h].started /\ spinners'[h].started) =>
              /\ ~HasOp(out', "console")
              /\ runningSpinners' = Append(runningSpinners, h)
              /\ IF ~Active
                 THEN /\ Active'
                      /\ CountOp(out', "frame") = 1
                      /\ IsSuffix(toString(spinners'[h], TRUE), FrameData(out'))
                      /\ newBuffered' = <<>>
                 ELSE /\ out' = <<>>
                      /\ newBuffered' = newBuffered
                      /\ displayed' = displayed]_vars

\* C14 witness: a second handle started while the multiplexer was active is
\* among the running spinners and has not been drawn yet.
StartedWhileActive ==
    /\ Active
    /\ out = <<>>
    /\ Len(runningSpinners) = 2
    /\ Len(displayed) = 1
    /\ registered = runningSpinners

\* C15: a redraw tick whose write throws leaves currentBufferHeight and the
\* running spinners as they were before the tick.
FailedRedrawKeepsState ==
    [][(HasOp(out', "throw") /\ spinners' = spinners /\ ~resized') =>
          /\ currentBufferHeight' = currentBufferHeight
          /\ runningSpinners' = runningSpinners]_vars

\* C16: no call, tick or resize callback ends with an exception of a stdOut
\* call propagating out of it.
NoThrowEscapes == ~HasOp(out, "throw")

\* the visible characters of a string
Visible(str) == SelectSeq(str, LAMBDA c : c \in {"a", LF})

\* the positions that end a segment of v: its line breaks and its end
Ends(v) == {i \in DOMAIN v : v[i] = LF} \cup {Len(v) + 1}

\* the length of the segment that ends at position e
SegmentLength(v, e) ==
    Cardinality({i \in 1..(e - 1) : \A j \in i..(e - 1) : v[j] # LF})

\* the rows a segment of n characters takes at width w: at least one, and
\* the least number of rows of w columns that hold n characters
SegmentRows(n, w) == CHOOSE k \in 1..(n + 1) : k * w >= n /\ (k = 1 \/ (k - 1) * w < n)

RECURSIVE SumOver(_, _, _)
SumOver(v, es, w) ==
    IF es = {} THEN 0
    ELSE LET e == CHOOSE x \in es : TRUE
         IN  SegmentRows(SegmentLength(v, e), w) + SumOver(v, es \ {e}, w)

\* C17: the height returned for a string at a width is the sum, over the
\* segments between line breaks of its visible characters, of
\* max(1, ceil(length / width)); it is at least 1, and it is the height of
\* the string without its escape sequences.
HeightFormula ==
    \A i \in DOMAIN out :
        out[i].op = "height" =>
            LET v == Visible(out[i].data)
            IN  /\ out[i].n = SumOver(v, Ends(v), columns)
                /\ out[i].n >= 1
                /\ out[i].n = getContentHeight(v, columns)

\* C17 witness: a string with escape sequences, an empty segment and a
\* segment longer than the width has been measured.
HeightMeasured ==
    /\ out # <<>>
    /\ out[1].op = "height"
    /\ out[1].data = <<SGR, "a", "a", LF>>
    /\ columns = 1
    /\ out[1].n = 3

\* C18: of the logging calls made through the wrapper of a key, by any level
\* method or by log(), the first N log one line and every later one writes
\* nothing, N being the count the wrapper was made with.
CallCountLimit ==
    [][\A key \in Keys :
          limitedCalls'[key] = limitedCalls[key] + 1 =>
              IF limitedCalls[key] < limits'[key].count
              THEN out' = <<Ev("console", 0, getPrefix \o <<SP>> \o Msg(logCount'))>>
              ELSE out' = <<>>]_vars

\* C19: a step of the animation interval's callback writes nothing and
\* leaves currentBufferHeight and the pending lines as they are.
AnimationTickSilent ==
    [][AnimationTick =>
          /\ out' = <<>>
          /\ currentBufferHeight' = currentBufferHeight
          /\ newBuffered' = newBuffered]_vars

\* C20: in every state the icon of a running handle is a sequence of frames
\* and the icon of a stopped handle is one fixed glyph, so that the stopped
\* handle's rendering shows no frame of the running animation.
IconShape ==
    \A h \in Handles :
        /\ Live(h) => spinners[h].isArray
        /\ spinners[h].stopped =>
              /\ ~spinners[h].isArray
              /\ NoRunningFrame(toString(spinners[h], TRUE))

\* the handles held by the Set runningSpinners
LiveSet == {runningSpinners[i] : i \in DOMAIN runningSpinners}

\* C21: after every step runningSpinners holds, once each, exactly the
\* handles that are started and not stopped; the step that sets a handle's
\* stopped flag takes it out of the set and appends its final rendering to
\* the pending lines (which the same step flushes when it tears down); and
\* the indicator lines of a frame are those of the live handles only.
LiveSetExact ==
    [][/\ \A h \in Handles : (h \in LiveSet') <=> Live(h)'
       /\ Len(runningSpinners') = Cardinality(LiveSet')
       /\ \A h \in Handles :
             (~spinners[h].stopped /\ spinners'[h].stopped) =>
                 /\ h \notin LiveSet'
                 /\ IF Active'
                    THEN newBuffered' =
                             Append(newBuffered,
                                    replaceAllTabs(toString(spinners'[h], TRUE)))
                    ELSE /\ HasOp(out', "frame")
                         /\ FrameData(out') =
                                join(Append(newBuffered,
                                            replaceAllTabs(toString(spinners'[h], TRUE))),
                                     EOL)
       /\ HasOp(out', "frame") =>
             /\ displayed' = Contents'
             /\ Len(displayed') = Cardinality({h \in Handles : Live(h)'})]_vars

\* C21 witness: a frame has just drawn one indicator line while one handle
\* is live, one has failed and one was built and never started.
OnlyLiveDrawn ==
    /\ HasOp(out, "frame")
    /\ Len(displayed) = 1
    /\ Cardinality(LiveSet) = 1
    /\ \E h \in Handles : spinners[h].stopped
    /\ \E h \in Handles : spinners[h].created /\ ~spinners[h].started

\* C22: in every state in which the multiplexer is idle (its intervals are
\* undefined) no line waits in the pending lines and currentBufferHeight is 0:
\* a teardown leaves nothing behind for a later active period.
IdleHoldsNothing ==
    (~spinnersRefreshInterval \/ ~ttyRefreshInterval) =>
        /\ newBuffered = <<>>
        /\ currentBufferHeight = 0

\* C22 witness: the second active period has just been torn down, after all
\* the plain lines were logged, and the multiplexer is idle.
IdleAfterSecondPeriod ==
    /\ ~spinnersRefreshInterval
    /\ ~ttyRefreshInterval
    /\ HasOp(out, "show")
    /\ logCount = MaxLogs
    /\ Len(registered) = 2
    /\ \A h \in Concurrent : spinners[h].stopped
    /\ MsgIn(MaxLogs, FrameData(out))

\* C23: a stop(), success() or fail() call on a console indicator that has
\* already stopped, and a stop() on one that was never started, emit no log
\* line; and once the indicator has stopped no timeout is pending.
ConsoleTerminalIdempotent ==
    [][/\ (consoleSpinner.stopped /\ (ConsoleStop \/ ConsoleSuccess \/ ConsoleFail))
             => out' = <<>>
       /\ (~consoleSpinner.started /\ ConsoleStop) => out' = <<>>
       /\ consoleSpinner'.stopped => timeouts' = 0]_vars

\* C24: a call of console.log, info, debug, warn or error made while the
\* console is patched ends without exhausting the call stack and emits
\* exactly one line, on the console or into the pending lines; and unpatch()
\* leaves the console methods the originals.
PatchedConsoleOnce ==
    [][/\ (ConsoleCall /\ consoleMethods # __originalMethods) =>
             /\ ~HasOp(out', "throw")
             /\ CountOp(out', "console") + Len(newBuffered') - Len(newBuffered) = 1
       /\ Unpatch => consoleMethods' = __originalMethods]_vars

\* the step of SetExclusive that assigns b to the exclusive of logger
SetExclusiveTo(logger, b) == Commit(exclusiveSet(Begin, logger, b))

\* the step of LogBy in which logger makes the plain log call
LogByLogger(logger) ==
    /\ logCount < MaxLogs
    /\ Commit(outputLogBy([Begin EXCEPT !.logCount = @ + 1], logger,
                          <<Msg(logCount + 1)>>))

\* C25: an assignment logger.exclusive = b leaves that logger exclusive
\* exactly when b is true; after every step at most one logger is exclusive;
\* and a plain log call by a logger other than the exclusive one writes
\* nothing and buffers nothing.
ExclusiveAssigned ==
    [][/\ \A logger \in Loggers, b \in BOOLEAN :
             SetExclusiveTo(logger, b) => ((exclusive' = logger) <=> b)
       /\ Cardinality({logger \in Loggers : exclusive' = logger}) <= 1
       /\ \A logger \in Loggers :
             (LogByLogger(logger) /\ exclusive # undefined /\ exclusive # logger) =>
                 /\ out' = <<>>
                 /\ newBuffered' = newBuffered]_vars

====
